---- MODULE Spec2Model ----
(***************************************************************************)
(* Model of the retry / bounded-concurrency core of mcp-web-tools:         *)
(*   withRetry, isFatalError        (src/src/utils/retry.ts)               *)
(*   webPageTool                    (src/unnamed/part_004)                 *)
(*   downloadFilesTool              (src/unnamed/part_003)                 *)
(* One action is one synchronous stretch of JavaScript between two         *)
(* suspension points (await of the operation, await of the backoff timer). *)
(***************************************************************************)
EXTENDS Integers, Sequences, FiniteSets, TLC

VARIABLES
    tool,         \* entry point that was called: "retry", "webPage", "download"
    urls,         \* input.urls
    maxRetries,   \* input.maxRetries / withRetry's maxRetries argument
    concurrency,  \* input.concurrency
    phase,        \* "init", "running", "returned", "rejected"
    unit,         \* per input index: the state of its withRetry call
    hist,         \* per input index: outcomes of the operation so far (observer)
    entries,      \* per input index: the entry the unit's task resolved with
    output,       \* the list the tool returned
    filenames,    \* input.filenames (download), NoFilenames when omitted
    fs,           \* file system: was the directory made, which paths were written
    order,        \* input indices in the order their tasks settled (observer)
    retryDelay,   \* input.retryDelay / withRetry's retryDelay argument
    timer,        \* per call of tool "retry": the delay of its pending backoff
                  \* timer in units of 1/(2*JitterSteps) ms, 0 when none is set
    download,     \* the running downloadFile attempt: its abort timer and stage
    search,       \* the running performWebSearch attempt
    server,       \* the tool-call request handler of the server
    client        \* an MCPWebToolsClient and the transports it has opened

vars == <<tool, urls, maxRetries, concurrency, phase, unit, hist, entries,
          output, filenames, fs, order, retryDelay, timer,
          download, search, server, client>>

\* the parts of the program a specification does not run
Unused == [pc |-> "unused"]
others == <<download, search, server, client>>
OthersUnused ==
    /\ download = Unused
    /\ search = Unused
    /\ server = Unused
    /\ client = Unused

input == <<tool, urls, maxRetries, concurrency, filenames, retryDelay>>

(***************************************************************************)
(* Bounds                                                                  *)
(***************************************************************************)
MaxAttempts == 3      \* largest maxRetries argument of a direct withRetry call
MaxUrls == 3          \* longest urls list of a batch
MaxBatchRetries == 2  \* largest maxRetries of a batch
MaxConcurrency == 3   \* largest concurrency of a batch
MaxLiveUrls == 2      \* longest urls list of a batch checked for termination
MaxPathUrls == 2      \* longest urls list of a download checked for its paths
MaxTimeout == 2       \* largest input.timeout of a download, in clock ticks
MaxElapsed == 3       \* longest time a download attempt is followed, in clock ticks
MaxConnects == 3      \* most connect calls made on one client
MaxOverlapUrls == 2   \* longest urls list of each of two overlapping batches
JitterSteps == 2      \* Math.random() returns one of 0/JitterSteps .. (JitterSteps-1)/JitterSteps

\* retry.ts line 11 and the schemas' retryDelay default
DefaultRetryDelay == 1000

\* the urls of a batch: pairwise different, so that an entry filed under
\* another unit's index shows
AllUrls == <<"A", "B", "C", "D", "E">>
UrlLists == {SubSeq(AllUrls, 1, n) : n \in 0..MaxUrls}

(***************************************************************************)
(* Thrown values.  type: "Error" (instanceof Error), "object" (other       *)
(* object), "string" (primitive), "undefined".  prop tells whether the     *)
(* value has a statusCode property and of which kind.  `at` is the number  *)
(* of the invocation that raised it, so that two errors raised by          *)
(* different invocations are different values.                             *)
(***************************************************************************)
StatusCodes == {399, 400, 404, 429, 430, 499, 500}

Undefined == [type |-> "undefined", prop |-> "absent", statusCode |-> 0,
              message |-> "", at |-> 0]

ErrorShapes ==
    {[type |-> "Error", prop |-> "number", statusCode |-> c, message |-> "HTTP"]
        : c \in StatusCodes}
    \cup {[type |-> "Error", prop |-> "absent", statusCode |-> 0, message |-> "Network error"],
          [type |-> "object", prop |-> "undefined", statusCode |-> 0, message |-> ""],
          [type |-> "string", prop |-> "absent", statusCode |-> 0, message |-> "boom"]}

RaisedAt(shape, n) ==
    [type |-> shape.type, prop |-> shape.prop, statusCode |-> shape.statusCode,
     message |-> shape.message, at |-> n]

\* an outcome of one invocation of the operation
Ok == [ok |-> TRUE, err |-> Undefined]
Failed(e) == [ok |-> FALSE, err |-> e]

(***************************************************************************)
(* isFatalError (retry.ts 41-56)                                           *)
(***************************************************************************)
isFatalErrorNo429(e) ==
    IF e.type \in {"Error", "object"} /\ e.prop # "absent"
    THEN /\ e.prop # "undefined"
         /\ e.statusCode >= 400
         /\ e.statusCode < 500
    ELSE FALSE

isFatalError(e) ==
    IF e.type \in {"Error", "object"} /\ e.prop # "absent"
    THEN /\ e.prop # "undefined"
         /\ e.statusCode >= 400
         /\ e.statusCode < 500
         /\ e.statusCode # 429
    ELSE FALSE

(***************************************************************************)
(* withRetry (retry.ts 8-35).  A call's state:                             *)
(*   pc       "queued"  not yet called (waiting in the limiter's queue)    *)
(*            "fn"      awaiting fn()                     (line 18)        *)
(*            "backoff" awaiting the setTimeout promise   (line 30)        *)
(*            "settled" returned or threw                                  *)
(*   attempt, lastError  the locals of lines 13-14                         *)
(*   fatal    the value isFatalError returned at line 24, last time        *)
(*   calls    number of invocations of fn so far                           *)
(*   delays   number of backoff delays started so far                      *)
(*   ret      how the call settled                                         *)
(***************************************************************************)
\* Math.random(): a number in [0, 1), here j / JitterSteps
Jitters == 0..(JitterSteps - 1)

\* line 29: retryDelay * Math.pow(2, attempt) * (0.5 + Math.random()), where
\* attempt was already incremented at line 21.  The value is kept exact by
\* scaling with 2 * JitterSteps: 0.5 + j/JitterSteps = (JitterSteps + 2j) /
\* (2 * JitterSteps).
BackoffDelayBeforeIncrement(base, attempt, j) ==
    base * (2 ^ (attempt - 1)) * (JitterSteps + 2 * j)

BackoffDelay(base, attempt, j) ==
    base * (2 ^ attempt) * (JitterSteps + 2 * j)

Pending == [kind |-> "pending", at |-> 0, error |-> Undefined]
Return(n) == [kind |-> "return", at |-> n, error |-> Undefined]
Throw(e) == [kind |-> "throw", at |-> 0, error |-> e]

Queued == [pc |-> "queued", attempt |-> 0, lastError |-> Undefined,
           fatal |-> FALSE, calls |-> 0, delays |-> 0, ret |-> Pending]

\* line 16 and what follows it: the loop test, then either fn() is invoked
\* (line 18) or the loop is left and lastError is thrown (line 34)
LoopHeadOffByOne(s, max) ==
    IF s.attempt <= max
    THEN [s EXCEPT !.pc = "fn", !.calls = @ + 1]
    ELSE [s EXCEPT !.pc = "settled", !.ret = Throw(s.lastError)]

LoopHead(s, max) ==
    IF s.attempt < max
    THEN [s EXCEPT !.pc = "fn", !.calls = @ + 1]
    ELSE [s EXCEPT !.pc = "settled", !.ret = Throw(s.lastError)]

\* lines 13-16: entry of withRetry
Enter(max) == LoopHead(Queued, max)

\* line 18: fn() fulfilled; its value is returned
OnResolve(s) == [s EXCEPT !.pc = "settled", !.ret = Return(s.calls)]

\* lines 19-30: fn() rejected with e
OnRejectNoRetry(s, e) ==
    LET s1 == [s EXCEPT !.lastError = e, !.attempt = @ + 1,
                        !.fatal = isFatalError(e)]
    IN  [s1 EXCEPT !.pc = "settled", !.ret = Throw(s1.lastError)]

OnRejectDelayBeforeBreak(s, e) ==
    LET s1 == [s EXCEPT !.lastError = e, !.attempt = @ + 1,
                        !.fatal = isFatalError(e), !.delays = @ + 1]
    IN  IF s1.fatal
        THEN [s1 EXCEPT !.pc = "settled", !.ret = Throw(s1.lastError)]
        ELSE [s1 EXCEPT !.pc = "backoff"]

OnReject(s, e) ==
    LET s1 == [s EXCEPT !.lastError = e, !.attempt = @ + 1,
                        !.fatal = isFatalError(e)]
    IN  IF s1.fatal
        THEN [s1 EXCEPT !.pc = "settled", !.ret = Throw(s1.lastError)]
        ELSE [s1 EXCEPT !.pc = "backoff", !.delays = @ + 1]

\* line 30 resumes: back to the loop test
OnTimer(s, max) == LoopHead(s, max)

(***************************************************************************)
(* A direct call of withRetry, as the unit tests make it                   *)
(***************************************************************************)
NoEntry == [url |-> "", ok |-> FALSE, error |-> "", at |-> 0, filepath |-> <<>>,
            set |-> FALSE]

NoFilenames == <<"undefined">>
NoFs == [dir |-> FALSE, files |-> {}]

\* the retryDelay arguments of a direct call
RetryDelays == {0, 1, DefaultRetryDelay}

InitRetry ==
    /\ tool = "retry"
    /\ urls = <<"A">>
    /\ maxRetries \in (-1)..MaxAttempts
    /\ concurrency = 1
    /\ phase = "init"
    /\ unit = [i \in {1} |-> Queued]
    /\ hist = [i \in {1} |-> <<>>]
    /\ entries = [i \in {1} |-> NoEntry]
    /\ output = <<>>
    /\ filenames = NoFilenames
    /\ fs = NoFs
    /\ order = <<>>
    /\ retryDelay \in RetryDelays
    /\ timer = [i \in {1} |-> 0]
    /\ OthersUnused

RetryCall ==
    /\ tool = "retry"
    /\ phase = "init"
    /\ LET s == Enter(maxRetries)
       IN  /\ unit' = [unit EXCEPT ![1] = s]
           /\ phase' = IF s.pc = "settled" THEN "rejected" ELSE "running"
    /\ UNCHANGED <<others, input, timer, hist, entries, output, fs, order>>

RetryFnResolves ==
    /\ tool = "retry"
    /\ phase = "running"
    /\ unit[1].pc = "fn"
    /\ unit' = [unit EXCEPT ![1] = OnResolve(@)]
    /\ hist' = [hist EXCEPT ![1] = Append(@, Ok)]
    /\ phase' = "returned"
    /\ UNCHANGED <<others, input, timer, entries, output, fs, order>>

RetryFnRejects ==
    /\ tool = "retry"
    /\ phase = "running"
    /\ unit[1].pc = "fn"
    /\ \E shape \in ErrorShapes, j \in Jitters :
         LET e == RaisedAt(shape, unit[1].calls)
             s == OnReject(unit[1], e)
         IN  /\ unit' = [unit EXCEPT ![1] = s]
             /\ hist' = [hist EXCEPT ![1] = Append(@, Failed(e))]
             /\ timer' = [timer EXCEPT ![1] =
                   IF s.pc = "backoff"
                   THEN BackoffDelay(retryDelay, s.attempt, j)
                   ELSE 0]
             /\ phase' = IF s.pc = "settled" THEN "rejected" ELSE "running"
    /\ UNCHANGED <<others, input, entries, output, fs, order>>

RetryTimer ==
    /\ tool = "retry"
    /\ phase = "running"
    /\ unit[1].pc = "backoff"
    /\ LET s == OnTimer(unit[1], maxRetries)
       IN  /\ unit' = [unit EXCEPT ![1] = s]
           /\ phase' = IF s.pc = "settled" THEN "rejected" ELSE "running"
    /\ timer' = [timer EXCEPT ![1] = 0]
    /\ UNCHANGED <<others, input, hist, entries, output, fs, order>>

NextRetry == RetryCall \/ RetryFnResolves \/ RetryFnRejects \/ RetryTimer

SpecRetry == InitRetry /\ [][NextRetry]_vars

(***************************************************************************)
(* Two direct calls of withRetry with the same arguments, as a test that   *)
(* calls it twice makes them; the calls may overlap.                       *)
(***************************************************************************)
\* what the mocked operations of retry.test.ts reject with: a plain Error,
\* and an Error that carries statusCode 404
TestErrorShapes ==
    {[type |-> "Error", prop |-> "absent", statusCode |-> 0,
      message |-> "Persistent error"],
     [type |-> "Error", prop |-> "number", statusCode |-> 404,
      message |-> "Not found"]}

InitTwice ==
    /\ tool = "retryTwice"
    /\ urls = <<"A", "A">>
    /\ maxRetries \in 0..MaxAttempts
    /\ concurrency = 1
    /\ phase = "init"
    /\ unit = [c \in {1, 2} |-> Queued]
    /\ hist = [c \in {1, 2} |-> <<>>]
    /\ entries = [c \in {1, 2} |-> NoEntry]
    /\ output = <<>>
    /\ filenames = NoFilenames
    /\ fs = NoFs
    /\ order = <<>>
    /\ retryDelay \in RetryDelays
    /\ timer = [c \in {1, 2} |-> 0]
    /\ OthersUnused

\* "returned" once both calls have settled
PhaseAfter(u) ==
    IF \A c \in DOMAIN u : u[c].pc = "settled" THEN "returned" ELSE "running"

\* lines 13-18 of call c: its locals are fresh
TwiceCallSharedLocals(c) ==
    /\ tool = "retryTwice"
    /\ unit[c].pc = "queued"
    /\ unit' = [unit EXCEPT ![c] =
          LoopHead([unit[3 - c] EXCEPT !.pc = "queued", !.ret = Pending],
                   maxRetries)]
    /\ phase' = PhaseAfter(unit')
    /\ UNCHANGED <<others, input, timer, hist, entries, output, fs, order>>

TwiceCall(c) ==
    /\ tool = "retryTwice"
    /\ unit[c].pc = "queued"
    /\ unit' = [unit EXCEPT ![c] = Enter(maxRetries)]
    /\ phase' = PhaseAfter(unit')
    /\ UNCHANGED <<others, input, timer, hist, entries, output, fs, order>>

TwiceFnResolves(c) ==
    /\ tool = "retryTwice"
    /\ unit[c].pc = "fn"
    /\ unit' = [unit EXCEPT ![c] = OnResolve(@)]
    /\ hist' = [hist EXCEPT ![c] = Append(@, Ok)]
    /\ phase' = PhaseAfter(unit')
    /\ UNCHANGED <<others, input, timer, entries, output, fs, order>>

TwiceFnRejects(c) ==
    /\ tool = "retryTwice"
    /\ unit[c].pc = "fn"
    /\ \E shape \in TestErrorShapes, j \in Jitters :
         LET e == RaisedAt(shape, unit[c].calls)
             s == OnReject(unit[c], e)
         IN  /\ unit' = [unit EXCEPT ![c] = s]
             /\ hist' = [hist EXCEPT ![c] = Append(@, Failed(e))]
             /\ timer' = [timer EXCEPT ![c] =
                   IF s.pc = "backoff"
                   THEN BackoffDelay(retryDelay, s.attempt, j)
                   ELSE 0]
    /\ phase' = PhaseAfter(unit')
    /\ UNCHANGED <<others, input, entries, output, fs, order>>

TwiceTimer(c) ==
    /\ tool = "retryTwice"
    /\ unit[c].pc = "backoff"
    /\ unit' = [unit EXCEPT ![c] = OnTimer(@, maxRetries)]
    /\ timer' = [timer EXCEPT ![c] = 0]
    /\ phase' = PhaseAfter(unit')
    /\ UNCHANGED <<others, input, hist, entries, output, fs, order>>

NextTwice ==
    \/ \E c \in {1, 2} : TwiceCall(c)
    \/ \E c \in {1, 2} : TwiceFnResolves(c)
    \/ \E c \in {1, 2} : TwiceFnRejects(c)
    \/ \E c \in {1, 2} : TwiceTimer(c)

SpecTwice == InitTwice /\ [][NextTwice]_vars

(***************************************************************************)
(* The batch tools.  Both build `limit = pLimit(input.concurrency)`, map   *)
(* every url to limit(async () => { try { withRetry(...) } catch ... }),   *)
(* and await all the tasks.  The batch model is untimed: a backoff is a    *)
(* suspension that ends at some later step, whatever its length, and       *)
(* `timer` is not kept for the units of a batch.                           *)
(***************************************************************************)
SeqsUpTo(S, n) == UNION {[1..k -> S] : k \in 0..n}

\* what fetchWebPage may reject with: the Error of its line 135, or whatever
\* the crawler raises (here an error that carries statusCode 404)
WebErrorShapes ==
    {[type |-> "Error", prop |-> "absent", statusCode |-> 0,
      message |-> "Failed to fetch content"],
     [type |-> "Error", prop |-> "number", statusCode |-> 404,
      message |-> "Not found"]}

\* what downloadFile may reject with: the Error of its line 388, which has
\* no statusCode property (errors of fetch and of the write stream have none
\* either)
DownloadErrorShapes ==
    {[type |-> "Error", prop |-> "absent", statusCode |-> 0,
      message |-> "HTTP 404: Not Found"]}

OperationErrorShapes ==
    IF tool = "download" THEN DownloadErrorShapes ELSE WebErrorShapes

\* String(error)
StringOf(e) ==
    CASE e.type = "string" -> e.message
      [] e.type = "undefined" -> "undefined"
      [] e.type = "object" -> "[object Object]"
      [] OTHER -> e.message

\* part_004 lines 78-81
WebErrorMessageGeneric(e) == "Unknown error occurred"

WebErrorMessage(e) ==
    IF e.type = "Error" THEN e.message
    ELSE IF StringOf(e) # "" THEN StringOf(e) ELSE "Unknown error occurred"

\* part_003 line 327
DownloadErrorMessage(e) ==
    IF e.type = "Error" THEN e.message ELSE StringOf(e)

(***************************************************************************)
(* File names and paths of downloadFilesTool.  A path is the sequence of   *)
(* its segments; the resolved target directory is /d.                      *)
(***************************************************************************)
Names == {"f.txt", "../up"}

\* the custom file names of the calls that exercise the path check: a plain
\* name, a name that leaves the directory, and a name that leaves it for a
\* sibling directory whose name begins like the target directory's
PathNames == {"f.txt", "../up", "../d2/x"}

ResolvedDir == <<"d">>

Segments(name) ==
    CASE name = "../up" -> <<"..", "up">>
      [] name = "../d2/x" -> <<"..", "d2", "x">>
      [] OTHER -> <<name>>

\* the characters of a path segment; a segment other than d and d2 is one
\* symbol, different from "d"
Chars(segment) ==
    CASE segment = "d" -> <<"d">>
      [] segment = "d2" -> <<"d", "2">>
      [] OTHER -> <<segment>>

\* the string of an absolute path
RECURSIVE Joined(_)
Joined(path) ==
    IF path = <<>> THEN <<>>
    ELSE <<"/">> \o Chars(Head(path)) \o Joined(Tail(path))

PathString(path) == IF path = <<>> THEN <<"/">> ELSE Joined(path)

\* String.prototype.startsWith
StartsWith(str, prefix) ==
    /\ Len(str) >= Len(prefix)
    /\ SubSeq(str, 1, Len(prefix)) = prefix

\* path.basename(new URL(url).pathname); "" when the URL has no file name
Basename(url) ==
    CASE url = "A" -> "a.txt"
      [] url = "B" -> "b.txt"
      [] OTHER -> ""

\* part_003 lines 425-441
extractFilenameFromUrl(url) ==
    IF Basename(url) = "" THEN "download_now" ELSE Basename(url)

RECURSIVE Normalize(_, _)
Normalize(acc, rest) ==
    IF rest = <<>> THEN acc
    ELSE IF Head(rest) = ".."
         THEN Normalize(IF acc = <<>> THEN acc ELSE SubSeq(acc, 1, Len(acc) - 1),
                        Tail(rest))
         ELSE Normalize(Append(acc, Head(rest)), Tail(rest))

\* path.resolve(path.join(resolvedDir, filename))
ResolvedFilepath(name) == Normalize(<<>>, ResolvedDir \o Segments(name))

\* resolvedFilepath.startsWith(resolvedDir): a comparison of strings
StartsWithDir(path) == StartsWith(PathString(path), PathString(ResolvedDir))

\* part_003 lines 303-304
FilenameOf(i) ==
    IF filenames # NoFilenames /\ i <= Len(filenames)
    THEN filenames[i]
    ELSE extractFilenameFromUrl(urls[i])

(***************************************************************************)
(* The entry a task resolves with                                          *)
(***************************************************************************)
Success(url, n, path) ==
    [url |-> url, ok |-> TRUE, error |-> "", at |-> n, filepath |-> path,
     set |-> TRUE]

Failure(url, msg) ==
    [url |-> url, ok |-> FALSE, error |-> msg, at |-> 0, filepath |-> <<>>,
     set |-> TRUE]

\* part_004 lines 66-83 / part_003 lines 315-329, once withRetry has settled
EntryOf(i, s) ==
    IF s.ret.kind = "return"
    THEN Success(urls[i], s.ret.at,
                 IF tool = "download" THEN ResolvedFilepath(FilenameOf(i)) ELSE <<>>)
    ELSE Failure(urls[i],
                 IF tool = "download" THEN DownloadErrorMessage(s.ret.error)
                 ELSE WebErrorMessage(s.ret.error))

\* part_003 lines 343-364: the list returned by the outer catch
SetupErrorList(msg) == <<Failure("", msg)>>

(***************************************************************************)
(* p-limit: a task runs its function when fewer than `concurrency` tasks   *)
(* are running; tasks are taken from the queue in the order of the calls   *)
(* of limit(), and a task leaves the running set when its function's       *)
(* promise settles.                                                        *)
(***************************************************************************)
InFlightNeverReleased == {i \in DOMAIN unit : unit[i].pc # "queued"}

InFlightReleasedInBackoff == {i \in DOMAIN unit : unit[i].pc = "fn"}

InFlight == {i \in DOMAIN unit : unit[i].pc \in {"fn", "backoff"}}

CanStartNoBound(i) ==
    /\ unit[i].pc = "queued"
    /\ \A j \in 1..(i - 1) : unit[j].pc # "queued"

CanStart(i) ==
    /\ unit[i].pc = "queued"
    /\ \A j \in 1..(i - 1) : unit[j].pc # "queued"
    /\ Cardinality(InFlight) < concurrency

InitBatch ==
    /\ tool \in {"webPage", "download"}
    /\ urls \in UrlLists
    /\ maxRetries \in 0..MaxBatchRetries
    /\ concurrency \in (-1)..MaxConcurrency
    /\ filenames \in IF tool = "download"
                     THEN {NoFilenames} \cup SeqsUpTo(Names, MaxUrls)
                     ELSE {NoFilenames}
    /\ phase = "init"
    /\ unit = [i \in 1..Len(urls) |-> Queued]
    /\ hist = [i \in 1..Len(urls) |-> <<>>]
    /\ entries = [i \in 1..Len(urls) |-> NoEntry]
    /\ output = <<>>
    /\ fs = NoFs
    /\ order = <<>>
    /\ retryDelay = DefaultRetryDelay
    /\ timer = [i \in 1..Len(urls) |-> 0]
    /\ OthersUnused

\* part_004 lines 63-87: pLimit throws a TypeError unless concurrency is an
\* integer >= 1; otherwise every url is handed to limit() and the tool awaits
WebPageCall ==
    /\ tool = "webPage"
    /\ phase = "init"
    /\ phase' = IF concurrency < 1 THEN "rejected" ELSE "running"
    /\ UNCHANGED <<others, input, timer, unit, hist, entries, output, fs, order>>

\* part_003 lines 281-288: pLimit, path.resolve, then await fs.mkdir
DownloadCallNoValidation ==
    /\ tool = "download"
    /\ phase = "init"
    /\ phase' = "mkdir"
    /\ UNCHANGED <<others, input, timer, unit, hist, entries, output, fs, order>>

DownloadCall ==
    /\ tool = "download"
    /\ phase = "init"
    /\ phase' = IF concurrency < 1 THEN "rejected" ELSE "mkdir"
    /\ UNCHANGED <<others, input, timer, unit, hist, entries, output, fs, order>>

\* part_003 line 288 settles; on success line 291 awaits fs.access
MkdirSettles ==
    /\ tool = "download"
    /\ phase = "mkdir"
    /\ \/ /\ phase' = "access"
          /\ fs' = [fs EXCEPT !.dir = TRUE]
          /\ UNCHANGED output
       \/ /\ phase' = "returned"
          /\ output' = SetupErrorList("EACCES: permission denied, mkdir")
          /\ UNCHANGED fs
    /\ UNCHANGED <<others, input, timer, unit, hist, entries, order>>

\* part_003 lines 291-333: fs.access settles; then the filenames check, the
\* tasks are created and awaited
AccessSettles ==
    /\ tool = "download"
    /\ phase = "access"
    /\ \/ /\ phase' = "returned"
          /\ output' = SetupErrorList("EACCES: permission denied, access")
       \/ IF filenames # NoFilenames /\ Len(filenames) # Len(urls)
          THEN /\ phase' = "returned"
               /\ output' = SetupErrorList(
                    "Filenames array must have the same length as URLs array")
          ELSE /\ phase' = "running"
               /\ UNCHANGED output
    /\ UNCHANGED <<others, input, timer, unit, hist, entries, fs, order>>

\* the limiter runs task i: part_004 lines 65-71 / part_003 lines 301-319 up
\* to the first await inside withRetry
StartUncaughtThrow(i) ==
    /\ phase = "running"
    /\ CanStart(i)
    /\ IF tool = "download" /\ ~StartsWithDir(ResolvedFilepath(FilenameOf(i)))
       THEN /\ unit' = [unit EXCEPT ![i].pc = "skipped"]
            /\ phase' = "rejected"
            /\ UNCHANGED entries
       ELSE LET s == Enter(maxRetries)
            IN  /\ unit' = [unit EXCEPT ![i] = s]
                /\ entries' = IF s.pc = "settled"
                              THEN [entries EXCEPT ![i] = EntryOf(i, s)]
                              ELSE entries
                /\ UNCHANGED phase
    /\ order' = IF entries'[i].set THEN Append(order, i) ELSE order
    /\ UNCHANGED <<others, input, timer, hist, output, fs>>

Start(i) ==
    /\ phase = "running"
    /\ CanStart(i)
    /\ IF tool = "download" /\ ~StartsWithDir(ResolvedFilepath(FilenameOf(i)))
       THEN /\ unit' = [unit EXCEPT ![i].pc = "skipped"]
            /\ entries' = [entries EXCEPT ![i] =
                 Failure(urls[i], "Invalid file path: would escape directory")]
       ELSE LET s == Enter(maxRetries)
            IN  /\ unit' = [unit EXCEPT ![i] = s]
                /\ entries' = IF s.pc = "settled"
                              THEN [entries EXCEPT ![i] = EntryOf(i, s)]
                              ELSE entries
    /\ order' = IF entries'[i].set THEN Append(order, i) ELSE order
    /\ UNCHANGED <<others, input, timer, phase, hist, output, fs>>

\* the operation of task i fulfils: withRetry returns its value, the task
\* resolves with it
FnResolves(i) ==
    /\ phase = "running"
    /\ unit[i].pc = "fn"
    /\ LET s == OnResolve(unit[i])
       IN  /\ unit' = [unit EXCEPT ![i] = s]
           /\ entries' = [entries EXCEPT ![i] = EntryOf(i, s)]
    /\ hist' = [hist EXCEPT ![i] = Append(@, Ok)]
    /\ fs' = IF tool = "download"
             THEN [fs EXCEPT !.files = @ \cup {ResolvedFilepath(FilenameOf(i))}]
             ELSE fs
    /\ order' = Append(order, i)
    /\ UNCHANGED <<others, input, timer, phase, output>>

\* the operation of task i rejects: withRetry's catch block runs
FnRejects(i) ==
    /\ phase = "running"
    /\ unit[i].pc = "fn"
    /\ \E shape \in OperationErrorShapes :
         LET e == RaisedAt(shape, unit[i].calls)
             s == OnReject(unit[i], e)
         IN  /\ unit' = [unit EXCEPT ![i] = s]
             /\ hist' = [hist EXCEPT ![i] = Append(@, Failed(e))]
             /\ entries' = IF s.pc = "settled"
                           THEN [entries EXCEPT ![i] = EntryOf(i, s)]
                           ELSE entries
    /\ order' = IF entries'[i].set THEN Append(order, i) ELSE order
    /\ UNCHANGED <<others, input, timer, phase, output, fs>>

\* the backoff timer of task i fires
Timer(i) ==
    /\ phase = "running"
    /\ unit[i].pc = "backoff"
    /\ LET s == OnTimer(unit[i], maxRetries)
       IN  /\ unit' = [unit EXCEPT ![i] = s]
           /\ entries' = IF s.pc = "settled"
                         THEN [entries EXCEPT ![i] = EntryOf(i, s)]
                         ELSE entries
    /\ order' = IF entries'[i].set THEN Append(order, i) ELSE order
    /\ UNCHANGED <<others, input, timer, phase, hist, output, fs>>

\* part_004 lines 87-110 / part_003 lines 333-342: all tasks have settled
AggregateInCompletionOrder ==
    /\ phase = "running"
    /\ \A i \in DOMAIN unit : entries[i].set
    /\ output' = [k \in 1..Len(urls) |-> entries[order[k]]]
    /\ phase' = "returned"
    /\ UNCHANGED <<others, input, timer, unit, hist, entries, fs, order>>

AggregateSuccessesFirst ==
    /\ phase = "running"
    /\ \A i \in DOMAIN unit : entries[i].set
    /\ output' = SelectSeq([i \in 1..Len(urls) |-> entries[i]], LAMBDA r : r.ok)
                  \o SelectSeq([i \in 1..Len(urls) |-> entries[i]], LAMBDA r : ~r.ok)
    /\ phase' = "returned"
    /\ UNCHANGED <<others, input, timer, unit, hist, entries, fs, order>>

AggregateFailFast ==
    /\ phase = "running"
    /\ \/ \A i \in DOMAIN unit : entries[i].set
       \/ \E i \in DOMAIN unit : entries[i].set /\ ~entries[i].ok
    /\ output' = [i \in 1..Len(urls) |-> entries[i]]
    /\ phase' = "returned"
    /\ UNCHANGED <<others, input, timer, unit, hist, entries, fs, order>>

Aggregate ==
    /\ phase = "running"
    /\ \A i \in DOMAIN unit : entries[i].set
    /\ output' = [i \in 1..Len(urls) |-> entries[i]]
    /\ phase' = "returned"
    /\ UNCHANGED <<others, input, timer, unit, hist, entries, fs, order>>

Next ==
    \/ WebPageCall
    \/ DownloadCall
    \/ MkdirSettles
    \/ AccessSettles
    \/ \E i \in DOMAIN unit : Start(i)
    \/ \E i \in DOMAIN unit : FnResolves(i)
    \/ \E i \in DOMAIN unit : FnRejects(i)
    \/ \E i \in DOMAIN unit : Timer(i)
    \/ Aggregate

Spec == InitBatch /\ [][Next]_vars

\* downloadFilesTool alone, called with url lists that may repeat a url or
\* hold urls without a file name, and with the custom names of PathNames
PathUrls == {"A", "C"}

InitPaths ==
    /\ tool = "download"
    /\ urls \in UNION {[1..n -> PathUrls] : n \in 1..MaxPathUrls}
    /\ maxRetries = 1
    /\ concurrency \in 1..MaxPathUrls
    /\ filenames \in {NoFilenames} \cup [1..Len(urls) -> PathNames]
    /\ phase = "init"
    /\ unit = [i \in 1..Len(urls) |-> Queued]
    /\ hist = [i \in 1..Len(urls) |-> <<>>]
    /\ entries = [i \in 1..Len(urls) |-> NoEntry]
    /\ output = <<>>
    /\ fs = NoFs
    /\ order = <<>>
    /\ retryDelay = DefaultRetryDelay
    /\ timer = [i \in 1..Len(urls) |-> 0]
    /\ OthersUnused

NextPaths ==
    \/ DownloadCall
    \/ MkdirSettles
    \/ AccessSettles
    \/ \E i \in DOMAIN unit : Start(i)
    \/ \E i \in DOMAIN unit : FnResolves(i)
    \/ \E i \in DOMAIN unit : FnRejects(i)
    \/ \E i \in DOMAIN unit : Timer(i)
    \/ Aggregate

SpecPaths == InitPaths /\ [][NextPaths]_vars

\* One withRetry call run on its own from state s, its operation producing
\* the outcomes of `script` one after the other (retry.ts lines 16-34)
RECURSIVE Replay(_, _, _)
Replay(s, script, max) ==
    IF s.pc = "backoff" THEN Replay(OnTimer(s, max), script, max)
    ELSE IF s.pc = "fn" /\ script # <<>>
    THEN IF Head(script).ok
         THEN OnResolve(s)
         ELSE Replay(OnReject(s, Head(script).err), Tail(script), max)
    ELSE s

\* webPageTool run with concurrency 1 on the same urls: the tasks run one
\* after the other in input order, task i's operation producing the
\* outcomes of script[i]; the list it returns
SequentialResult(script) ==
    [i \in 1..Len(urls) |-> EntryOf(i, Replay(Enter(maxRetries), script[i], maxRetries))]

\* The same program under the scheduling the event loop gives it: a
\* continuation that is ready to run is run, a timer that was set fires, and
\* every invoked operation settles.  Some step is taken while one is possible.
\* Its calls are those of InitBatch with url lists of at most MaxLiveUrls.
InitLive ==
    /\ tool \in {"webPage", "download"}
    /\ urls \in {SubSeq(AllUrls, 1, n) : n \in 0..MaxLiveUrls}
    /\ maxRetries \in 0..MaxBatchRetries
    /\ concurrency \in (-1)..MaxConcurrency
    /\ filenames \in IF tool = "download"
                     THEN {NoFilenames} \cup SeqsUpTo(Names, MaxLiveUrls)
                     ELSE {NoFilenames}
    /\ phase = "init"
    /\ unit = [i \in 1..Len(urls) |-> Queued]
    /\ hist = [i \in 1..Len(urls) |-> <<>>]
    /\ entries = [i \in 1..Len(urls) |-> NoEntry]
    /\ output = <<>>
    /\ fs = NoFs
    /\ order = <<>>
    /\ retryDelay = DefaultRetryDelay
    /\ timer = [i \in 1..Len(urls) |-> 0]
    /\ OthersUnused

SpecLive == InitLive /\ [][Next]_vars /\ WF_vars(Next)


(***************************************************************************)
(* Two invocations of webPageTool that overlap in time.  Each runs         *)
(* `const limit = pLimit(input.concurrency)` (part_004 line 63) for        *)
(* itself.  In this specification urls, concurrency, phase, unit, hist,    *)
(* entries and output hold one value per invocation b; the order in which  *)
(* tasks settle is not recorded.                                           *)
(***************************************************************************)
Invocations == {1, 2}

InitOverlap ==
    /\ tool = "webPageTwice"
    /\ urls \in [Invocations -> {SubSeq(AllUrls, 1, n) : n \in 1..MaxOverlapUrls}]
    /\ maxRetries = 1
    /\ concurrency \in [Invocations -> 1..MaxOverlapUrls]
    /\ phase = [b \in Invocations |-> "init"]
    /\ unit = [b \in Invocations |-> [i \in 1..Len(urls[b]) |-> Queued]]
    /\ hist = [b \in Invocations |-> [i \in 1..Len(urls[b]) |-> <<>>]]
    /\ entries = [b \in Invocations |-> [i \in 1..Len(urls[b]) |-> NoEntry]]
    /\ output = [b \in Invocations |-> <<>>]
    /\ filenames = NoFilenames
    /\ fs = NoFs
    /\ order = <<>>
    /\ retryDelay = DefaultRetryDelay
    /\ timer = <<>>
    /\ OthersUnused

\* the tasks of invocation b that hold a slot of b's limiter
InFlightOfShared(b) ==
    {t \in Invocations \X (1..MaxOverlapUrls) :
        /\ t[2] \in DOMAIN unit[t[1]]
        /\ unit[t[1]][t[2]].pc \in {"fn", "backoff"}}

InFlightOf(b) ==
    {t \in {b} \X (1..MaxOverlapUrls) :
        /\ t[2] \in DOMAIN unit[t[1]]
        /\ unit[t[1]][t[2]].pc \in {"fn", "backoff"}}

CanStartIn(b, i) ==
    /\ unit[b][i].pc = "queued"
    /\ \A j \in 1..(i - 1) : unit[b][j].pc # "queued"
    /\ Cardinality(InFlightOf(b)) < concurrency[b]

\* part_004 lines 66-83 for task i of invocation b
OverlapEntryOf(b, i, s) ==
    IF s.ret.kind = "return"
    THEN Success(urls[b][i], s.ret.at, <<>>)
    ELSE Failure(urls[b][i], WebErrorMessage(s.ret.error))

\* task i of invocation b moves to state s of its withRetry call
OverlapMove(b, i, s) ==
    /\ unit' = [unit EXCEPT ![b][i] = s]
    /\ entries' = IF s.pc = "settled"
                  THEN [entries EXCEPT ![b][i] = OverlapEntryOf(b, i, s)]
                  ELSE entries

OverlapCall(b) ==
    /\ tool = "webPageTwice"
    /\ phase[b] = "init"
    /\ phase' = [phase EXCEPT ![b] = "running"]
    /\ UNCHANGED <<others, input, timer, unit, hist, entries, output, fs, order>>

OverlapStart(b, i) ==
    /\ tool = "webPageTwice"
    /\ phase[b] = "running"
    /\ CanStartIn(b, i)
    /\ OverlapMove(b, i, Enter(maxRetries))
    /\ UNCHANGED <<others, input, timer, phase, hist, output, fs, order>>

OverlapFnResolves(b, i) ==
    /\ tool = "webPageTwice"
    /\ phase[b] = "running"
    /\ unit[b][i].pc = "fn"
    /\ OverlapMove(b, i, OnResolve(unit[b][i]))
    /\ hist' = [hist EXCEPT ![b][i] = Append(@, Ok)]
    /\ UNCHANGED <<others, input, timer, phase, output, fs, order>>

OverlapFnRejects(b, i) ==
    /\ tool = "webPageTwice"
    /\ phase[b] = "running"
    /\ unit[b][i].pc = "fn"
    /\ \E shape \in WebErrorShapes :
         LET e == RaisedAt(shape, unit[b][i].calls)
         IN  /\ OverlapMove(b, i, OnReject(unit[b][i], e))
             /\ hist' = [hist EXCEPT ![b][i] = Append(@, Failed(e))]
    /\ UNCHANGED <<others, input, timer, phase, output, fs, order>>

OverlapTimer(b, i) ==
    /\ tool = "webPageTwice"
    /\ phase[b] = "running"
    /\ unit[b][i].pc = "backoff"
    /\ OverlapMove(b, i, OnTimer(unit[b][i], maxRetries))
    /\ UNCHANGED <<others, input, timer, phase, hist, output, fs, order>>

OverlapAggregate(b) ==
    /\ tool = "webPageTwice"
    /\ phase[b] = "running"
    /\ \A i \in DOMAIN unit[b] : entries[b][i].set
    /\ output' = [output EXCEPT ![b] = [i \in 1..Len(urls[b]) |-> entries[b][i]]]
    /\ phase' = [phase EXCEPT ![b] = "returned"]
    /\ UNCHANGED <<others, input, timer, unit, hist, entries, fs, order>>

NextOverlap ==
    \/ \E b \in Invocations : OverlapCall(b)
    \/ \E b \in Invocations : \E i \in DOMAIN unit[b] : OverlapStart(b, i)
    \/ \E b \in Invocations : \E i \in DOMAIN unit[b] : OverlapFnResolves(b, i)
    \/ \E b \in Invocations : \E i \in DOMAIN unit[b] : OverlapFnRejects(b, i)
    \/ \E b \in Invocations : \E i \in DOMAIN unit[b] : OverlapTimer(b, i)
    \/ \E b \in Invocations : OverlapAggregate(b)

SpecOverlap == InitOverlap /\ [][NextOverlap]_vars


(***************************************************************************)
(* downloadFile (part_003 lines 368-423) under withRetry, for one url.     *)
(* Time is counted in ticks of a clock that is restarted with every        *)
(* attempt; a tick cannot pass over a timer that is due.                   *)
(***************************************************************************)
\* what an attempt rejects with: fetch's AbortError, a network error of
\* fetch, the Error of line 388, an error event of the write stream
AttemptErrorShapes ==
    [abort |-> [type |-> "Error", prop |-> "absent", statusCode |-> 0,
                message |-> "This operation was aborted"],
     network |-> [type |-> "Error", prop |-> "absent", statusCode |-> 0,
                  message |-> "fetch failed"],
     http |-> [type |-> "Error", prop |-> "absent", statusCode |-> 0,
               message |-> "HTTP 404: Not Found"],
     stream |-> [type |-> "Error", prop |-> "absent", statusCode |-> 0,
                 message |-> "ENOSPC: no space left on device, write"]]

NoAttempt(timeout) ==
    [pc |-> "none", armed |-> FALSE, elapsed |-> 0, timeout |-> timeout]

\* lines 373-377: the abort timer is set and fetch is called
NewAttempt(timeout) ==
    [pc |-> "fetching", armed |-> TRUE, elapsed |-> 0, timeout |-> timeout]

InitDownload ==
    /\ tool = "downloadFile"
    /\ urls = <<"A">>
    /\ maxRetries \in 1..MaxBatchRetries
    /\ concurrency = 1
    /\ phase = "init"
    /\ unit = [i \in {1} |-> Queued]
    /\ hist = [i \in {1} |-> <<>>]
    /\ entries = [i \in {1} |-> NoEntry]
    /\ output = <<>>
    /\ filenames = NoFilenames
    /\ fs = [dir |-> TRUE, files |-> {}]
    /\ order = <<>>
    /\ retryDelay = DefaultRetryDelay
    /\ timer = [i \in {1} |-> 0]
    /\ download \in {NoAttempt(t) : t \in 1..MaxTimeout}
    /\ search = Unused
    /\ server = Unused
    /\ client = Unused

\* withRetry has moved to state s: a new attempt begins when it invokes the
\* operation, and the call is over when it settles
AfterStep(s) ==
    /\ unit' = [unit EXCEPT ![1] = s]
    /\ download' = IF s.pc = "fn" THEN NewAttempt(download.timeout)
                   ELSE NoAttempt(download.timeout)
    /\ phase' = IF s.pc # "settled" THEN "running"
                ELSE IF s.ret.kind = "return" THEN "returned" ELSE "rejected"

\* the attempt throws e: the catch of lines 419-422 clears the timer and
\* rethrows into withRetry's catch
AttemptFails(shape) ==
    LET e == RaisedAt(shape, unit[1].calls)
    IN  /\ AfterStep(OnReject(unit[1], e))
        /\ hist' = [hist EXCEPT ![1] = Append(@, Failed(e))]

DownloadFileCall ==
    /\ tool = "downloadFile"
    /\ phase = "init"
    /\ AfterStep(Enter(maxRetries))
    /\ UNCHANGED <<input, timer, hist, entries, output, fs, order,
                   search, server, client>>

\* one tick of the clock
ClockTick ==
    /\ tool = "downloadFile"
    /\ download.pc \in {"fetching", "streaming"}
    /\ download.elapsed < MaxElapsed
    /\ ~(download.armed /\ download.elapsed >= download.timeout)
    /\ download' = [download EXCEPT !.elapsed = @ + 1]
    /\ UNCHANGED <<input, timer, phase, unit, hist, entries, output, fs, order,
                   search, server, client>>

\* line 374: the abort timer fires, fetch rejects with an AbortError
AbortTimerFires ==
    /\ tool = "downloadFile"
    /\ download.armed
    /\ download.elapsed >= download.timeout
    /\ AttemptFails(AttemptErrorShapes.abort)
    /\ UNCHANGED <<input, timer, entries, output, fs, order,
                   search, server, client>>

\* line 377 rejects: no response
FetchRejects ==
    /\ tool = "downloadFile"
    /\ download.pc = "fetching"
    /\ AttemptFails(AttemptErrorShapes.network)
    /\ UNCHANGED <<input, timer, entries, output, fs, order,
                   search, server, client>>

\* lines 377-400: the response arrives; the timer is cleared; a response
\* that is not ok throws, otherwise the file is opened and the body piped
ResponseArrives ==
    /\ tool = "downloadFile"
    /\ download.pc = "fetching"
    /\ \/ /\ AttemptFails(AttemptErrorShapes.http)
          /\ UNCHANGED fs
       \/ /\ download' = [download EXCEPT !.pc = "streaming", !.armed = FALSE]
          /\ fs' = [fs EXCEPT !.files = @ \cup {ResolvedFilepath(FilenameOf(1))}]
          /\ UNCHANGED <<phase, unit, hist>>
    /\ UNCHANGED <<input, timer, entries, output, order, search, server, client>>

\* lines 403-418: the write stream finishes, the result is returned
BodyWritten ==
    /\ tool = "downloadFile"
    /\ download.pc = "streaming"
    /\ AfterStep(OnResolve(unit[1]))
    /\ hist' = [hist EXCEPT ![1] = Append(@, Ok)]
    /\ UNCHANGED <<input, timer, entries, output, fs, order,
                   search, server, client>>

\* line 405: the write stream emits an error
WriteStreamErrors ==
    /\ tool = "downloadFile"
    /\ download.pc = "streaming"
    /\ AttemptFails(AttemptErrorShapes.stream)
    /\ UNCHANGED <<input, timer, entries, output, fs, order,
                   search, server, client>>

\* retry.ts line 30 resumes after the backoff
DownloadBackoffEnds ==
    /\ tool = "downloadFile"
    /\ unit[1].pc = "backoff"
    /\ AfterStep(OnTimer(unit[1], maxRetries))
    /\ UNCHANGED <<input, timer, hist, entries, output, fs, order,
                   search, server, client>>

NextDownload ==
    \/ DownloadFileCall
    \/ ClockTick
    \/ AbortTimerFires
    \/ FetchRejects
    \/ ResponseArrives
    \/ BodyWritten
    \/ WriteStreamErrors
    \/ DownloadBackoffEnds

SpecDownload == InitDownload /\ [][NextDownload]_vars


(***************************************************************************)
(* The tool-call request handler of the server (part_006 lines 244-290).   *)
(* An optional argument is <<>> when omitted and <<v>> when given.         *)
(***************************************************************************)
ToolNames == {"web_search", "web_page", "download_files"}
RequestNames == ToolNames \cup {"no_such_tool"}

\* the arguments of a request: whether the required ones are there and
\* well typed, and two of the optional arguments of web_page
RequestArgs ==
    [required : {"valid", "missing", "wrongType"},
     includeLinks : {<<>>, <<TRUE>>, <<FALSE>>},
     maxLength : {<<>>, <<100>>, <<5000>>}]

\* the defaults of webPageSchema (part_004 lines 9-43)
WebPageSchemaDefaults ==
    [includeImages |-> FALSE, includeLinks |-> FALSE, maxLength |-> 50000,
     maxRetries |-> 3, retryDelay |-> 1000, concurrency |-> 5]

\* the defaults the tool listing gives for web_page (part_006 lines 128-168)
WebPageListedDefaults ==
    [includeImages |-> FALSE, includeLinks |-> TRUE, maxLength |-> 5000,
     maxRetries |-> 3, retryDelay |-> 1000, concurrency |-> 5]

\* .optional().default(d)
OrDefault(opt, d) == IF opt = <<>> THEN d ELSE opt[1]

\* webPageSchema.parse(args) for args whose required part is valid
ParsedWebPage(args) ==
    [WebPageSchemaDefaults EXCEPT
        !.includeLinks = OrDefault(args.includeLinks, @),
        !.maxLength = OrDefault(args.maxLength, @)]

NoResponse == [isError |-> FALSE, text |-> "none"]
ErrorResponse(text) == [isError |-> TRUE, text |-> text]

ServerIdle ==
    [pc |-> "idle", name |-> "", args |-> <<>>, input |-> <<>>,
     invoked |-> <<>>, threw |-> FALSE, response |-> NoResponse]

InitServer ==
    /\ tool = "server"
    /\ urls = <<>>
    /\ maxRetries = 0
    /\ concurrency = 0
    /\ phase = "init"
    /\ unit = <<>>
    /\ hist = <<>>
    /\ entries = <<>>
    /\ output = <<>>
    /\ filenames = NoFilenames
    /\ fs = NoFs
    /\ order = <<>>
    /\ retryDelay = 0
    /\ timer = <<>>
    /\ download = Unused
    /\ search = Unused
    /\ server = ServerIdle
    /\ client = Unused

batch == <<input, timer, phase, unit, hist, entries, output, fs, order>>

\* lines 245-267 up to the first await: the switch on the name, the parse
\* of the arguments, the call of the tool; what throws is caught at line 268
ReceiveRequest ==
    /\ tool = "server"
    /\ server.pc = "idle"
    /\ \E name \in RequestNames, args \in RequestArgs :
         server' =
           IF name \notin ToolNames
           THEN [server EXCEPT !.pc = "responded", !.name = name,
                               !.args = <<args>>,
                               !.response = ErrorResponse("Error: Unknown tool")]
           ELSE IF args.required # "valid"
           THEN [server EXCEPT !.pc = "responded", !.name = name,
                               !.args = <<args>>,
                               !.response = ErrorResponse("Invalid input")]
           ELSE [server EXCEPT !.pc = "tool", !.name = name,
                               !.args = <<args>>,
                               !.input = IF name = "web_page"
                                         THEN <<ParsedWebPage(args)>>
                                         ELSE <<>>,
                               !.invoked = Append(@, name)]
    /\ UNCHANGED <<batch, download, search, client>>

\* the awaited tool promise fulfils: its value is the response
ToolReturns ==
    /\ tool = "server"
    /\ server.pc = "tool"
    /\ server' = [server EXCEPT !.pc = "responded",
                                !.response = [isError |-> FALSE, text |-> "result"]]
    /\ UNCHANGED <<batch, download, search, client>>

\* the awaited tool promise rejects: lines 268-289
ToolThrowsUncaught ==
    /\ tool = "server"
    /\ server.pc = "tool"
    /\ server' = [server EXCEPT !.pc = "rejected", !.threw = TRUE]
    /\ UNCHANGED <<batch, download, search, client>>

ToolThrows ==
    /\ tool = "server"
    /\ server.pc = "tool"
    /\ server' = [server EXCEPT !.pc = "responded", !.threw = TRUE,
                                !.response = ErrorResponse("Error: message")]
    /\ UNCHANGED <<batch, download, search, client>>

NextServer == ReceiveRequest \/ ToolReturns \/ ToolThrows

SpecServer == InitServer /\ [][NextServer]_vars


(***************************************************************************)
(* One attempt of performWebSearch (part_003 lines 87-203).  A page is     *)
(* what fetchSearch resolves with: null, or a page with or without         *)
(* content, a status code (0: none), and the kind of result links its      *)
(* content holds: "html" (a.result__a), "lite" (a.result-link), "none".    *)
(***************************************************************************)
NullPage == [exists |-> FALSE, content |-> FALSE, statusCode |-> 0,
             links |-> "none"]

Pages ==
    {NullPage}
    \cup [exists : {TRUE}, content : {FALSE}, statusCode : {0, 200, 403},
          links : {"none"}]
    \cup [exists : {TRUE}, content : {TRUE}, statusCode : {0, 200, 403},
          links : {"none", "html", "lite"}]

\* lines 162-169: the links found in the page held, first by the html
\* selector, then by the lite selectors
HasLinks(page) == page.exists /\ page.content /\ page.links # "none"

SearchIdle ==
    [pc |-> "idle", page |-> NullPage, fetched |-> <<>>, result |-> "pending"]

\* lines 115-118: an attempt begins by fetching the primary endpoint
SearchBegun ==
    [pc |-> "primary", page |-> NullPage, fetched |-> <<"primary">>,
     result |-> "pending"]

\* the Errors an attempt throws (lines 129, 191) or passes on from the
\* crawler; none carries a statusCode
SearchError(message) ==
    [type |-> "Error", prop |-> "absent", statusCode |-> 0, message |-> message]

InitSearch ==
    /\ tool = "webSearch"
    /\ urls = <<"A">>
    /\ maxRetries \in 1..MaxBatchRetries
    /\ concurrency = 1
    /\ phase = "init"
    /\ unit = [i \in {1} |-> Queued]
    /\ hist = [i \in {1} |-> <<>>]
    /\ entries = [i \in {1} |-> NoEntry]
    /\ output = <<>>
    /\ filenames = NoFilenames
    /\ fs = NoFs
    /\ order = <<>>
    /\ retryDelay = DefaultRetryDelay
    /\ timer = [i \in {1} |-> 0]
    /\ download = Unused
    /\ search = SearchIdle
    /\ server = Unused
    /\ client = Unused

\* lines 162-187 once the page to parse is held: return the links, or fetch
\* the lite endpoint as the last resort
ParseOrLastResort(s, page) ==
    IF HasLinks(page)
    THEN [s EXCEPT !.pc = "done", !.page = page, !.result = "results"]
    ELSE [s EXCEPT !.pc = "lastResort", !.page = page,
                   !.fetched = Append(@, "lite")]

\* webSearchTool lines 47-85: withRetry around the attempts; the tool returns
\* a result whether withRetry returns or throws
WithRetryMoves(s) ==
    /\ unit' = [unit EXCEPT ![1] = s]
    /\ phase' = IF s.pc = "settled" THEN "returned" ELSE "running"

\* the attempt moves to n; when it is over, its outcome goes to withRetry
AttemptMoves(n) ==
    /\ search' = n
    /\ IF n.pc # "done"
       THEN UNCHANGED <<unit, hist, phase>>
       ELSE IF n.result = "results"
       THEN /\ WithRetryMoves(OnResolve(unit[1]))
            /\ hist' = [hist EXCEPT ![1] = Append(@, Ok)]
       ELSE LET e == RaisedAt(SearchError(n.result), unit[1].calls)
            IN  /\ WithRetryMoves(OnReject(unit[1], e))
                /\ hist' = [hist EXCEPT ![1] = Append(@, Failed(e))]

WebSearchCall ==
    /\ tool = "webSearch"
    /\ phase = "init"
    /\ WithRetryMoves(Enter(maxRetries))
    /\ search' = SearchBegun
    /\ UNCHANGED <<input, timer, hist, entries, output, fs, order,
                   download, server, client>>

\* a fetchSearch call rejects: the attempt rejects with its error
FetchSearchRejects ==
    /\ tool = "webSearch"
    /\ search.pc \in {"primary", "fallback", "lastResort"}
    /\ AttemptMoves([search EXCEPT !.pc = "done", !.result = "scrape failed"])
    /\ UNCHANGED <<input, timer, entries, output, fs, order,
                   download, server, client>>

\* lines 118-126: the primary fetch resolves; without content or with a
\* status >= 400 the lite endpoint is fetched as the fallback
PrimaryResolves ==
    /\ tool = "webSearch"
    /\ search.pc = "primary"
    /\ \E page \in Pages :
         AttemptMoves(
           IF ~(page.exists /\ page.content) \/ page.statusCode >= 400
           THEN [search EXCEPT !.pc = "fallback", !.page = page,
                               !.fetched = Append(@, "lite")]
           ELSE ParseOrLastResort(search, page))
    /\ UNCHANGED <<input, timer, entries, output, fs, order,
                   download, server, client>>

\* lines 125-130: the fallback fetch resolves
FallbackResolves ==
    /\ tool = "webSearch"
    /\ search.pc = "fallback"
    /\ \E page \in Pages :
         AttemptMoves(
           IF ~page.exists
           THEN [search EXCEPT !.pc = "done", !.page = page,
                               !.result = "No results retrieved"]
           ELSE ParseOrLastResort(search, page))
    /\ UNCHANGED <<input, timer, entries, output, fs, order,
                   download, server, client>>

\* lines 178-192: the last-resort fetch resolves
LastResortResolves ==
    /\ tool = "webSearch"
    /\ search.pc = "lastResort"
    /\ \E page \in Pages :
         AttemptMoves([search EXCEPT
                         !.pc = "done",
                         !.result = IF HasLinks(page) THEN "results"
                                    ELSE "No search results parsed"])
    /\ UNCHANGED <<input, timer, entries, output, fs, order,
                   download, server, client>>

\* retry.ts line 30 resumes after the backoff: the next attempt, if any
SearchBackoffEnds ==
    /\ tool = "webSearch"
    /\ unit[1].pc = "backoff"
    /\ LET s == OnTimer(unit[1], maxRetries)
       IN  /\ WithRetryMoves(s)
           /\ search' = IF s.pc = "fn" THEN SearchBegun ELSE search
    /\ UNCHANGED <<input, timer, hist, entries, output, fs, order,
                   download, server, client>>

NextSearch ==
    \/ WebSearchCall
    \/ FetchSearchRejects
    \/ PrimaryResolves
    \/ FallbackResolves
    \/ LastResortResolves
    \/ SearchBackoffEnds

SpecSearch == InitSearch /\ [][NextSearch]_vars


(***************************************************************************)
(* MCPWebToolsClient.connect / disconnect (part_002 lines 56-73).  The     *)
(* transports the client creates are numbered 1, 2, ...; transport 0 is    *)
(* null.  The calls are made one after the other.                          *)
(***************************************************************************)
ClientNew ==
    [pc |-> "idle", transport |-> 0, created |-> 0, opened |-> {},
     closed |-> {}, last |-> "none"]

InitClient ==
    /\ tool = "client"
    /\ urls = <<>>
    /\ maxRetries = 0
    /\ concurrency = 0
    /\ phase = "init"
    /\ unit = <<>>
    /\ hist = <<>>
    /\ entries = <<>>
    /\ output = <<>>
    /\ filenames = NoFilenames
    /\ fs = NoFs
    /\ order = <<>>
    /\ retryDelay = 0
    /\ timer = <<>>
    /\ download = Unused
    /\ search = Unused
    /\ server = Unused
    /\ client = ClientNew

\* lines 56-65 up to the await: a new transport is stored in this.transport
\* and client.connect(transport) is awaited
ConnectCall ==
    /\ tool = "client"
    /\ client.pc = "idle"
    /\ client.created < MaxConnects
    /\ client' = [client EXCEPT !.pc = "connecting",
                                !.created = @ + 1,
                                !.transport = client.created + 1]
    /\ UNCHANGED <<batch, download, search, server>>

\* line 65 settles: the transport was started and connect returns, or the
\* server process could not be started and connect rejects
ConnectSettles ==
    /\ tool = "client"
    /\ client.pc = "connecting"
    /\ \/ client' = [client EXCEPT !.pc = "idle", !.last = "connect",
                                   !.opened = @ \cup {client.transport}]
       \/ client' = [client EXCEPT !.pc = "idle", !.last = "connect rejected"]
    /\ UNCHANGED <<batch, download, search, server>>

\* lines 68-70: with a transport held, its close() is awaited; without one
\* disconnect returns at once
DisconnectCall ==
    /\ tool = "client"
    /\ client.pc = "idle"
    /\ client' = IF client.transport # 0
                 THEN [client EXCEPT !.pc = "closing"]
                 ELSE [client EXCEPT !.last = "disconnect"]
    /\ UNCHANGED <<batch, download, search, server>>

\* lines 70-72: close() has resolved, this.transport becomes null
CloseSettles ==
    /\ tool = "client"
    /\ client.pc = "closing"
    /\ client' = [client EXCEPT !.pc = "idle", !.last = "disconnect",
                                !.closed = @ \cup {client.transport},
                                !.transport = 0]
    /\ UNCHANGED <<batch, download, search, server>>

NextClient == ConnectCall \/ ConnectSettles \/ DisconnectCall \/ CloseSettles

SpecClient == InitClient /\ [][NextClient]_vars

(***************************************************************************)
(* Properties of withRetry and isFatalError                                *)
(***************************************************************************)
Units == DOMAIN unit

\* the classification the specification asks for
FatalBySpec(e) ==
    /\ e.prop = "number"
    /\ 400 <= e.statusCode
    /\ e.statusCode < 500
    /\ e.statusCode # 429

NonFatalFailure(o) == ~o.ok /\ ~FatalBySpec(o.err)
FatalFailure(o) == ~o.ok /\ FatalBySpec(o.err)

AllNonFatalFailures(h) == \A k \in 1..Len(h) : NonFatalFailure(h[k])

\* C1: with maxRetries = n >= 1, a withRetry call whose operation fails
\* non-fatally at every invocation never invokes it more than n times, and
\* once it has settled it has invoked it exactly n times and has thrown the
\* very error the n-th invocation raised.
C1_ExhaustedThrowsLastError ==
    \A i \in Units :
        (maxRetries >= 1 /\ AllNonFatalFailures(hist[i])) =>
            /\ unit[i].calls <= maxRetries
            /\ unit[i].pc = "settled" =>
                  /\ unit[i].calls = maxRetries
                  /\ Len(hist[i]) = maxRetries
                  /\ unit[i].ret = Throw(hist[i][maxRetries].err)

C1_Witness ==
    \E i \in Units :
        /\ maxRetries = 3
        /\ unit[i].pc = "settled"
        /\ Len(hist[i]) = 3
        /\ AllNonFatalFailures(hist[i])
        /\ unit[i].ret.kind = "throw"
        /\ unit[i].ret.error.at = 3

\* C2: as soon as an invocation fails with a fatal error the withRetry call
\* has settled by throwing that same error: that invocation is the last one
\* and no backoff delay was started after it (a call whose first invocation
\* fails with 404 has invoked the operation once and waited no delay).
C2_FatalStopsAtOnce ==
    \A i \in Units : \A k \in 1..Len(hist[i]) :
        FatalFailure(hist[i][k]) =>
            /\ k = Len(hist[i])
            /\ unit[i].pc = "settled"
            /\ unit[i].ret = Throw(hist[i][k].err)
            /\ unit[i].calls = k
            /\ unit[i].delays = k - 1

C2_Witness ==
    \E i \in Units :
        /\ maxRetries = 3
        /\ Len(hist[i]) = 1
        /\ ~hist[i][1].ok
        /\ hist[i][1].err.statusCode = 404
        /\ unit[i].pc = "settled"
        /\ unit[i].calls = 1
        /\ unit[i].delays = 0

\* C3: the value isFatalError returned for the last error caught is TRUE
\* exactly when that error carries a numeric status code c with
\* 400 <= c < 500 and c # 429.
C3_ClassifierIff ==
    \A i \in Units :
        unit[i].attempt > 0 =>
            (unit[i].fatal <=>
                /\ unit[i].lastError.prop = "number"
                /\ unit[i].lastError.statusCode \in 400..499
                /\ unit[i].lastError.statusCode # 429)

C3_Witness ==
    \E i \in Units :
        /\ unit[i].attempt > 0
        /\ unit[i].fatal
        /\ unit[i].lastError.statusCode = 499

\* C4: with maxRetries >= 2, after a first invocation that failed
\* non-fatally the call is waiting to retry, and when the second invocation
\* succeeds the call has returned the second invocation's value after
\* exactly 2 invocations.
C4_SecondAttemptSucceeds ==
    \A i \in Units :
        (maxRetries >= 2 /\ Len(hist[i]) >= 1 /\ NonFatalFailure(hist[i][1])) =>
            /\ Len(hist[i]) = 1 => unit[i].pc \in {"backoff", "fn"}
            /\ (Len(hist[i]) >= 2 /\ hist[i][2].ok) =>
                  /\ Len(hist[i]) = 2
                  /\ unit[i].pc = "settled"
                  /\ unit[i].ret = Return(2)
                  /\ unit[i].calls = 2

C4_Witness ==
    \E i \in Units :
        /\ Len(hist[i]) = 2
        /\ hist[i][1].err.statusCode = 429
        /\ hist[i][2].ok
        /\ unit[i].ret = Return(2)

\* C5: with maxRetries < 1 a withRetry call settles without having invoked
\* the operation, by throwing an error value that is not undefined.
C5_ConfigurationError ==
    \A i \in Units :
        (maxRetries < 1 /\ unit[i].pc = "settled") =>
            /\ unit[i].calls = 0
            /\ unit[i].ret.kind = "throw"
            /\ unit[i].ret.error.type # "undefined"

(***************************************************************************)
(* Properties of the batch tools                                           *)
(***************************************************************************)
Last(h) == h[Len(h)]

AlwaysSucceeds(i) == hist[i] # <<>> /\ \A k \in 1..Len(hist[i]) : hist[i][k].ok
AlwaysFails(i) == hist[i] # <<>> /\ \A k \in 1..Len(hist[i]) : ~hist[i][k].ok

\* the item ran and its last invocation succeeded / failed
ItemSucceeded(i) == hist[i] # <<>> /\ Last(hist[i]).ok
ItemFailed(i) == hist[i] # <<>> /\ ~Last(hist[i]).ok

\* the entry of item j as its own url, file name and outcomes determine it
OwnEntry(j) ==
    IF tool = "download" /\ ~StartsWithDir(ResolvedFilepath(FilenameOf(j)))
    THEN Failure(urls[j], "Invalid file path: would escape directory")
    ELSE IF ItemSucceeded(j)
    THEN Success(urls[j], Len(hist[j]),
                 IF tool = "download" THEN ResolvedFilepath(FilenameOf(j)) ELSE <<>>)
    ELSE Failure(urls[j],
                 IF hist[j] = <<>> THEN "undefined" ELSE Last(hist[j]).err.message)

\* C6: while a batch tool runs with concurrency c >= 1, the number of units
\* that have started and not yet finished (awaiting their operation or a
\* backoff delay) never exceeds c, whatever the number of inputs.
C6_InFlightBounded ==
    (tool \in {"webPage", "download"} /\ concurrency >= 1) =>
        Cardinality(InFlight) <= concurrency

C6_Witness ==
    /\ tool = "download"
    /\ concurrency = 2
    /\ Len(urls) = 3
    /\ Cardinality(InFlight) = 2
    /\ unit[3].pc = "queued"
    /\ unit[1].pc = "backoff"

\* C7: the list webPageTool returns has the length of input.urls, and its
\* i-th entry carries the i-th url and the outcome of the i-th unit (success
\* with the value of its last invocation, or failure), in whatever order the
\* units completed.
C7_OutputIndexedByInput ==
    (tool = "webPage" /\ phase = "returned") =>
        /\ Len(output) = Len(urls)
        /\ \A i \in 1..Len(urls) :
              /\ output[i].url = urls[i]
              /\ output[i].ok = ItemSucceeded(i)
              /\ output[i].ok => output[i].at = Len(hist[i])

C7_Witness ==
    /\ tool = "webPage"
    /\ phase = "returned"
    /\ urls = <<"A", "B", "C">>
    /\ order = <<3, 1, 2>>
    /\ output[1].ok
    /\ ~output[3].ok

\* C8: every list downloadFilesTool returns has exactly one entry per input
\* url, in input order.
C8_OneEntryPerUrl ==
    (tool = "download" /\ phase = "returned") =>
        /\ Len(output) = Len(urls)
        /\ \A i \in 1..Len(urls) : output[i].url = urls[i]

\* C9: when a batch of three inputs has returned and the operation of the
\* second failed at every invocation while those of the first and third
\* succeeded at every invocation, the result is <<success, failure, success>>
\* for these urls; in any returned batch an item that failed has a failure
\* entry at its own index and an item that succeeded has an entry without
\* error at its own index.
C9_MixedOutcomes ==
    phase = "returned" =>
        /\ (/\ Len(urls) = 3
            /\ AlwaysSucceeds(1) /\ AlwaysFails(2) /\ AlwaysSucceeds(3)) =>
               /\ Len(output) = 3
               /\ output[1].ok /\ output[1].url = urls[1]
               /\ ~output[2].ok /\ output[2].url = urls[2]
               /\ output[3].ok /\ output[3].url = urls[3]
        /\ \A i \in Units :
              /\ ItemFailed(i) =>
                    /\ Len(output) = Len(urls)
                    /\ ~output[i].ok
                    /\ output[i].url = urls[i]
                    /\ output[i].error # ""
              /\ ItemSucceeded(i) =>
                    /\ Len(output) = Len(urls)
                    /\ output[i].ok
                    /\ output[i].url = urls[i]
                    /\ output[i].error = ""

C9_Witness ==
    /\ phase = "returned"
    /\ urls = <<"A", "B", "C">>
    /\ maxRetries = 2
    /\ AlwaysSucceeds(1) /\ AlwaysFails(2) /\ AlwaysSucceeds(3)
    /\ Len(hist[2]) = 2
    /\ output = <<Success("A", 1, <<>>), Failure("B", "Failed to fetch content"),
                  Success("C", 1, <<>>)>>

\* unit j is the next the limiter would take from its queue
HeadOfQueue(j) ==
    /\ phase = "running"
    /\ unit[j].pc = "queued"
    /\ \A k \in 1..(j - 1) : unit[k].pc # "queued"

\* no cancellation: the batch does not return while a unit is in flight, and
\* a unit in flight can always take its next step
NotCancelled ==
    /\ InFlight # {} => phase = "running"
    /\ \A j \in InFlight :
          ENABLED (FnResolves(j) \/ FnRejects(j) \/ Timer(j))

\* the entry of a unit is the one its own input and outcomes determine
OwnResult ==
    /\ \A j \in Units : entries[j].set => entries[j] = OwnEntry(j)
    /\ (phase = "returned" /\ (\A j \in Units : entries[j].set)) =>
          \A j \in Units : output[j] = OwnEntry(j)

\* a queued unit never waits for a slot held by a unit that has failed
NeverWaitsForFailedUnit ==
    \A i, j \in Units :
        ~(/\ i # j
          /\ HeadOfQueue(j)
          /\ Cardinality(InFlight) >= concurrency
          /\ i \in InFlight
          /\ hist[i] # <<>>)

\* C10 (as stated): a failure of unit i does not cancel another unit j, does
\* not delay the moment j starts or retries, and does not change j's result.
C10_FailureAffectsNoOtherUnit ==
    (tool \in {"webPage", "download"}) =>
        /\ NotCancelled
        /\ OwnResult
        /\ NeverWaitsForFailedUnit

\* C10 (amended): a failure of unit i does not cancel another unit j, does
\* not change j's result, and does not hold up j once j has started; a unit
\* still queued starts as soon as fewer than `concurrency` units are in
\* flight, whatever the units that have finished did.
C10_FailureIsolatedOnceStarted ==
    (tool \in {"webPage", "download"}) =>
        /\ NotCancelled
        /\ OwnResult
        /\ \A j \in Units :
              (HeadOfQueue(j) /\ Cardinality(InFlight) < concurrency) =>
                  ENABLED Start(j)

C10_Witness ==
    /\ phase = "returned"
    /\ Len(urls) = 3
    /\ concurrency = 3
    /\ order = <<2, 1, 3>>
    /\ unit[2].fatal
    /\ Len(hist[1]) = 2 /\ AlwaysFails(1)
    /\ output[3].ok

(***************************************************************************)
(* Termination and error containment of the batch tools                    *)
(***************************************************************************)
ResolvedOnce(i) ==
    /\ entries[i].set
    /\ Cardinality({k \in DOMAIN order : order[k] = i}) = 1

\* C11: once the units of a batch are handed to the limiter, every unit is
\* eventually resolved exactly once (success, exhausted or fatal), whatever
\* its siblings do, and the call then returns; a resolved unit is never
\* resolved again.
C11_EveryUnitResolvedThenReturns ==
    /\ (phase = "running") ~>
           (phase = "returned" /\ \A i \in Units : ResolvedOnce(i))
    /\ [][\A i \in Units : entries[i].set => entries'[i] = entries[i]]_vars

C11_Witness ==
    /\ phase = "returned"
    /\ concurrency = 1
    /\ Len(urls) = 2
    /\ Len(hist[1]) = 2 /\ AlwaysFails(1) /\ ~unit[1].fatal
    /\ Len(hist[2]) = 2 /\ output[2].ok
    /\ \A i \in Units : ResolvedOnce(i)

ValidConfiguration == concurrency >= 1 /\ maxRetries >= 1

ItemError(i) == unit[i].pc = "skipped" \/ unit[i].ret.kind = "throw"

\* C12: with a valid configuration neither tool rejects because of an item:
\* every unit whose task threw synchronously or whose withRetry call
\* rejected (fatal or exhausted) has a failure entry, and a returned list
\* holds that entry.
C12_ItemErrorsBecomeEntries ==
    (tool \in {"webPage", "download"} /\ ValidConfiguration) =>
        /\ phase # "rejected"
        /\ \A i \in Units :
              ItemError(i) =>
                  /\ entries[i].set /\ ~entries[i].ok /\ entries[i].error # ""
                  /\ (phase = "returned" => output[i] = entries[i])

C12_Witness ==
    /\ tool = "download"
    /\ ValidConfiguration
    /\ phase = "returned"
    /\ Len(urls) = 2
    /\ unit[1].pc = "skipped"
    /\ Len(hist[2]) = 2 /\ AlwaysFails(2)
    /\ Len(output) = 2 /\ ~output[1].ok /\ ~output[2].ok

\* C13: the failure entry of a unit whose withRetry call rejected after at
\* least one attempt carries the unit's input url and the message of the
\* error withRetry threw, which is the error of the unit's last attempt.
C13_FailureEntryCarriesUrlAndMessage ==
    (tool \in {"webPage", "download"}) =>
        \A i \in Units :
            (unit[i].ret.kind = "throw" /\ hist[i] # <<>>) =>
                /\ unit[i].ret.error = Last(hist[i]).err
                /\ entries[i].set /\ ~entries[i].ok
                /\ entries[i].url = urls[i]
                /\ entries[i].error = unit[i].ret.error.message

C13_Witness ==
    /\ tool = "webPage"
    /\ phase = "returned"
    /\ Len(urls) = 2
    /\ output[1].url = "A" /\ output[1].error = "Not found"
    /\ unit[1].fatal /\ Len(hist[1]) = 2
    /\ output[2].url = "B" /\ output[2].error = "Failed to fetch content"
    /\ Len(hist[2]) = 2

(***************************************************************************)
(* Backoff delays of withRetry                                             *)
(***************************************************************************)
\* the bounds baseDelayMs * 2^k * 0.5 and baseDelayMs * 2^k * 1.5 in the
\* unit of `timer`
LowerBound(k) == retryDelay * (2 ^ k) * JitterSteps
UpperBound(k) == retryDelay * (2 ^ k) * 3 * JitterSteps

\* the call waits its backoff delay after its k-th failed attempt
WaitsAfter(i, k) == unit[i].pc = "backoff" /\ Len(hist[i]) = k

\* C14 (as stated): the delay waited after the k-th failed attempt is at
\* least baseDelayMs * 2^k * 0.5 and strictly less than baseDelayMs * 2^k *
\* 1.5, for every jitter value.
C14_DelayWithinJitterBand ==
    (tool = "retry") =>
        \A i \in Units : \A k \in 1..MaxAttempts :
            WaitsAfter(i, k) =>
                LowerBound(k) <= timer[i] /\ timer[i] < UpperBound(k)

\* C14 (amended): with baseDelayMs > 0 the delay waited after the k-th
\* failed attempt is at least baseDelayMs * 2^k * 0.5 and strictly less than
\* baseDelayMs * 2^k * 1.5; with baseDelayMs = 0 the delay is 0.
C14_DelayWithinBandWhenPositive ==
    (tool = "retry") =>
        \A i \in Units : \A k \in 1..MaxAttempts :
            WaitsAfter(i, k) =>
                /\ LowerBound(k) <= timer[i]
                /\ IF retryDelay > 0 THEN timer[i] < UpperBound(k)
                                     ELSE timer[i] = 0

C14_Witness ==
    /\ tool = "retry"
    /\ retryDelay = DefaultRetryDelay
    /\ WaitsAfter(1, 2)
    /\ timer[1] > LowerBound(2)

\* a run of n attempts that all failed without a fatal error, now over
FailedRun(i, n) ==
    /\ unit[i].pc = "settled"
    /\ Len(hist[i]) = n
    /\ AllNonFatalFailures(hist[i])

\* C15: withRetry waits a delay only when an attempt remains: a run of n
\* failed attempts waits n - 1 delays, and after the last permitted attempt
\* fails the call rejects without waiting.
C15_NoDelayAfterLastAttempt ==
    (tool = "retry") =>
        \A i \in Units :
            /\ \A n \in 1..MaxAttempts :
                  FailedRun(i, n) => unit[i].delays = n - 1
            /\ (unit[i].pc = "backoff") => unit[i].attempt < maxRetries

(***************************************************************************)
(* Invalid configuration of the batch tools                                *)
(***************************************************************************)
NothingDone ==
    /\ \A i \in Units : unit[i] = Queued /\ hist[i] = <<>> /\ ~entries[i].set
    /\ fs = NoFs
    /\ output = <<>>

\* C16: called with concurrency < 1, webPageTool and downloadFilesTool
\* reject with the limiter's configuration error; no operation of any unit
\* has been invoked and the file system is unchanged.
C16_ConcurrencyRejectedBeforeWork ==
    (tool \in {"webPage", "download"} /\ concurrency < 1) =>
        /\ phase \in {"init", "rejected"}
        /\ NothingDone

C16_Witness ==
    /\ tool = "download"
    /\ concurrency = 0
    /\ Len(urls) = 2
    /\ maxRetries = 2
    /\ phase = "rejected"

\* C17: called with maxRetries < 1, the batch tools reject with a
\* configuration error before any work begins and return no list.
C17_MaxRetriesRejectedBeforeWork ==
    (tool \in {"webPage", "download"} /\ maxRetries < 1) =>
        /\ phase \in {"init", "rejected"}
        /\ NothingDone

(***************************************************************************)
(* Concurrency does not change the result                                  *)
(***************************************************************************)
\* C18: for the same urls and the same outcome sequences of each url's
\* operation, webPageTool with concurrency >= Len(urls) returns, whatever
\* the interleaving of its units, the list it returns with concurrency 1:
\* the list of the units run one after the other.
C18_SameResultAsSequential ==
    (/\ tool = "webPage"
     /\ phase = "returned"
     /\ concurrency = 1 \/ concurrency >= Len(urls)) =>
        output = SequentialResult(hist)

C18_Witness ==
    /\ tool = "webPage"
    /\ phase = "returned"
    /\ Len(urls) = 3
    /\ concurrency = 3
    /\ order = <<3, 1, 2>>
    /\ Len(hist[1]) = 2 /\ output[1].ok
    /\ ~output[2].ok
    /\ output = SequentialResult(hist)

(***************************************************************************)
(* withRetry keeps no state between calls                                  *)
(***************************************************************************)
SucceedsAtOnce(c) == hist[c] # <<>> /\ hist[c][1].ok

\* C19: a withRetry call whose operation succeeds at its first invocation
\* returns that invocation's value, has invoked the operation once and has
\* waited no delay, whatever another call did; two calls whose operation
\* succeeds at once return the same value.
C19_SuccessAtOnceIsStateless ==
    (tool = "retryTwice") =>
        /\ \A c \in Units :
              SucceedsAtOnce(c) =>
                  /\ unit[c].pc = "settled"
                  /\ unit[c].ret = Return(1)
                  /\ unit[c].calls = 1 /\ Len(hist[c]) = 1
                  /\ unit[c].delays = 0 /\ timer[c] = 0
        /\ (SucceedsAtOnce(1) /\ SucceedsAtOnce(2)) => unit[1].ret = unit[2].ret

C19_Witness ==
    /\ tool = "retryTwice"
    /\ phase = "returned"
    /\ SucceedsAtOnce(1) /\ SucceedsAtOnce(2)
    /\ unit[1].calls = 1 /\ unit[2].calls = 1
    /\ unit[1].ret = Return(1) /\ unit[2].ret = Return(1)

(***************************************************************************)
(* HTTP client errors of downloadFile                                      *)
(***************************************************************************)
\* the attempt ended with the Error downloadFile builds from a response of
\* status 404
Http4xx(o) == ~o.ok /\ o.err.message = "HTTP 404: Not Found"

\* C20: a download whose attempt received a 4xx response other than 429 is
\* classified fatal and attempted exactly once, whatever maxRetries is.
C20_Http4xxDownloadAttemptedOnce ==
    (tool = "download") =>
        \A i \in Units :
            (hist[i] # <<>> /\ Http4xx(hist[i][1])) =>
                /\ unit[i].fatal
                /\ unit[i].pc = "settled"
                /\ unit[i].calls = 1


(***************************************************************************)
(* The limiter belongs to one invocation                                   *)
(***************************************************************************)
\* the number of units of invocation b whose withRetry call has begun and
\* has not settled
Running(b) ==
    Cardinality({i \in DOMAIN unit[b] : unit[b][i].pc \in {"fn", "backoff"}})

\* C21: of two overlapping invocations each keeps its own bound, and the
\* unit at the head of an invocation's queue can start whenever fewer than
\* that invocation's `concurrency` of its own units are in flight, whatever
\* the units of the other invocation hold.
C21_LimiterPerInvocation ==
    (tool = "webPageTwice") =>
        \A b \in Invocations :
            /\ Running(b) <= concurrency[b]
            /\ \A i \in DOMAIN unit[b] :
                  (/\ phase[b] = "running"
                   /\ unit[b][i].pc = "queued"
                   /\ \A j \in 1..(i - 1) : unit[b][j].pc # "queued"
                   /\ Running(b) < concurrency[b]) =>
                      ENABLED OverlapStart(b, i)

C21_Witness ==
    /\ tool = "webPageTwice"
    /\ concurrency = <<1, 2>>
    /\ Len(urls[1]) = 2 /\ Len(urls[2]) = 2
    /\ unit[1][1].pc = "backoff" /\ unit[1][2].pc = "queued"
    /\ unit[2][1].pc = "fn" /\ unit[2][2].pc = "fn"


(***************************************************************************)
(* Files written by downloadFilesTool                                      *)
(***************************************************************************)
\* the path lies in the directory tree below ResolvedDir
InsideDir(path) ==
    /\ Len(path) > Len(ResolvedDir)
    /\ SubSeq(path, 1, Len(ResolvedDir)) = ResolvedDir

\* unit i has written its file
Wrote(i) == entries[i].set /\ entries[i].ok

\* C22: no two units of one download batch write to the same file path.
C22_NoTwoUnitsWriteSamePath ==
    (tool = "download") =>
        \A i, j \in Units :
            (i # j /\ Wrote(i) /\ Wrote(j)) =>
                entries[i].filepath # entries[j].filepath

\* C23: every file downloadFilesTool writes lies inside the resolved target
\* directory, and a unit whose resolved path is outside it is recorded as a
\* failure without any attempt.
C23_WritesStayInsideDirectory ==
    (tool = "download") =>
        /\ \A p \in fs.files : InsideDir(p)
        /\ \A i \in Units :
              (unit[i].pc # "queued"
                  /\ ~InsideDir(ResolvedFilepath(FilenameOf(i)))) =>
                  /\ unit[i].calls = 0 /\ hist[i] = <<>>
                  /\ entries[i].set /\ ~entries[i].ok


\* C30: called with a filenames list whose length differs from the urls
\* list, downloadFilesTool attempts no download, leaves the file system as
\* it was (no directory made, no file written) and returns only an error
\* entry.
C30_FilenamesMismatchChangesNothing ==
    (/\ tool = "download"
     /\ filenames # NoFilenames
     /\ Len(filenames) # Len(urls)) =>
        /\ \A i \in Units : unit[i] = Queued /\ hist[i] = <<>>
        /\ fs = NoFs
        /\ (phase = "returned") => (Len(output) = 1 /\ ~output[1].ok)


(***************************************************************************)
(* The timeout of a download attempt                                       *)
(***************************************************************************)
AttemptInFlight == download.pc \in {"fetching", "streaming"}

\* C24: no download attempt is in flight after its timeout has elapsed: an
\* attempt not finished by then has been aborted and has failed.
C24_NoAttemptPastTimeout ==
    (tool = "downloadFile") =>
        (AttemptInFlight => download.elapsed <= download.timeout)


(***************************************************************************)
(* The server: defaults and error responses                                *)
(***************************************************************************)
WebPageInvoked == server.name = "web_page" /\ server.invoked # <<>>

\* C25: a web_page call that omits includeLinks and maxLength runs the tool
\* with the defaults the listing advertises (includeLinks = TRUE), and every
\* advertised default is the default validation applies.
C25_AdvertisedDefaultsApplied ==
    (tool = "server" /\ WebPageInvoked) =>
        /\ (server.args[1].includeLinks = <<>>) =>
               server.input[1].includeLinks = WebPageListedDefaults.includeLinks
        /\ (server.args[1].maxLength = <<>>) =>
               server.input[1].maxLength = WebPageListedDefaults.maxLength
        /\ WebPageListedDefaults = WebPageSchemaDefaults


(***************************************************************************)
(* A slot is kept through the backoff delays                               *)
(***************************************************************************)
Invoking == {i \in Units : unit[i].pc = "fn"}
InBackoff == {i \in Units : unit[i].pc = "backoff"}

\* C26: a unit that waits out a backoff delay still counts toward the
\* bound: whenever a queued unit starts, fewer than `concurrency` units were
\* invoking their operation or waiting out a backoff delay.
C26_SlotKeptDuringBackoff ==
    [][(tool \in {"webPage", "download"}) =>
          \A j \in Units :
              (unit[j].pc = "queued" /\ unit'[j].pc # "queued") =>
                  Cardinality(Invoking) + Cardinality(InBackoff) < concurrency]_vars

C26_Witness ==
    /\ tool = "webPage"
    /\ phase = "running"
    /\ concurrency = 2
    /\ Len(urls) = 3
    /\ InBackoff = {1, 2}
    /\ unit[3].pc = "queued"


(***************************************************************************)
(* Fetches of one web search attempt                                       *)
(***************************************************************************)
LiteFetches == Cardinality({k \in DOMAIN search.fetched : search.fetched[k] = "lite"})

\* C27: one performWebSearch attempt fetches the lite endpoint at most
\* once: the last-resort fetch is not made when the lite endpoint was
\* already fetched as the fallback of the primary fetch.
C27_LiteFetchedAtMostOnce ==
    (tool = "webSearch") => LiteFetches <= 1


\* C28: the handler never rejects; a request that names no tool, a request
\* whose arguments fail validation and a request whose tool throws are
\* answered with isError = TRUE, and in the first two cases no tool function
\* has been invoked.
C28_HandlerAnswersEveryError ==
    (tool = "server") =>
        /\ server.pc # "rejected"
        /\ (server.pc \notin {"idle", "tool"}) =>
              /\ server.response # NoResponse
              /\ (server.name \notin ToolNames) =>
                     server.response.isError /\ server.invoked = <<>>
              /\ (server.args[1].required # "valid") =>
                     server.response.isError /\ server.invoked = <<>>
              /\ server.threw => server.response.isError

C28_Witness ==
    /\ tool = "server"
    /\ server.pc = "responded"
    /\ server.name = "download_files"
    /\ server.invoked = <<"download_files">>
    /\ server.threw
    /\ server.response.isError


(***************************************************************************)
(* Transports of the client                                                *)
(***************************************************************************)
\* C29: when the last call completed on the client is a disconnect, every
\* transport the client has opened has been closed and the client holds no
\* transport.
C29_DisconnectClosesEveryTransport ==
    (tool = "client" /\ client.pc = "idle" /\ client.last = "disconnect") =>
        /\ client.opened \subseteq client.closed
        /\ client.transport = 0

====
